---- MODULE Spec2Model ----
(***************************************************************************)
(* Model of src/app.py: the Quart application's startup hook (History      *)
(* Store client construction and the cosmos_db_ready signal) and the       *)
(* POST /conversation/<context> handler (JSON check, prompt selection,     *)
(* prompt insertion, tool-message filtering, the upstream completion call, *)
(* response formatting and the exception boundary).                        *)
(*                                                                         *)
(* Python values are encoded with uniform shapes:                          *)
(*   - a dict key that is absent has the value Missing;                    *)
(*   - Python None is the string NoneValue;                                *)
(*   - the `messages` field is a record [kind, items] whose kind is        *)
(*     "missing" (key absent), "null" (a JSON value that is not a list)    *)
(*     or "list";                                                          *)
(*   - a message is a record [kind, role, content] whose kind is "dict"    *)
(*     or "scalar" (a JSON value that has no .get method).                 *)
(***************************************************************************)
EXTENDS Integers, Sequences, FiniteSets, TLC

\* ------------------------------------------------------------------ bounds
MaxMsgs == 2

\* ------------------------------------------------------------ value domain
Missing == "<missing>"
NoneValue == "<None>"
EmptyMapping == "{}"

Roles == {"system", "user", "assistant", "tool"}
Contents == {"a", "b"}

Msg(r, c) == [kind |-> "dict", role |-> r, content |-> c]
ScalarMessage == [kind |-> "scalar", role |-> NoneValue, content |-> NoneValue]
ClientMessages == {Msg(r, c) : r \in Roles, c \in Contents} \cup {ScalarMessage}

SeqsUpTo(S, n) == UNION {[1..k -> S] : k \in 0..n}

MissingMessages == [kind |-> "missing", items |-> <<>>]
NullMessages == [kind |-> "null", items |-> <<>>]
ListMessages(s) == [kind |-> "list", items |-> s]
MessagesFields ==
    {MissingMessages, NullMessages} \cup {ListMessages(s) : s \in SeqsUpTo(ClientMessages, MaxMsgs)}

HistoryMetadataValues == {Missing, NoneValue, "{foo:1}"}
OtherFieldValues == {Missing, "conversation-1"}

Body(k, m, h, o) == [kind |-> k, messages |-> m, history_metadata |-> h, other |-> o]
\* A body sent with a non-JSON content type: never read by the handler.
RawBody == Body("raw", MissingMessages, Missing, Missing)
\* JSON content type, but the payload does not parse.
MalformedBody == Body("malformed", MissingMessages, Missing, Missing)
\* JSON payloads that are not objects: null and an array.
NullBody == Body("null", MissingMessages, Missing, Missing)
ArrayBody == Body("array", MissingMessages, Missing, Missing)
ObjectBodies ==
    {Body("object", m, h, o) : m \in MessagesFields, h \in HistoryMetadataValues, o \in OtherFieldValues}
JsonBodies == {MalformedBody, NullBody, ArrayBody} \cup ObjectBodies
Unread == Body("unread", MissingMessages, Missing, Missing)

Contexts == {"it", "legal", "hr"}
DefaultPrompt == "You are an AI assistant that helps people find information."
SystemMessageSettings == {NoneValue, "", DefaultPrompt}

\* Exceptions: has_status_code is hasattr(ex, "status_code").
PlainError == [has_status_code |-> FALSE, status_code |-> 0]
StatusError(s) == [has_status_code |-> TRUE, status_code |-> s]
UpstreamStatusCodes == {400, 429}
Errors == {PlainError} \cup {StatusError(s) : s \in UpstreamStatusCodes}
Outcomes == {[ok |-> TRUE, ex |-> PlainError]} \cup {[ok |-> FALSE, ex |-> e] : e \in Errors}

NoResponse == [kind |-> "none", status |-> 0, error |-> FALSE, history_metadata |-> Missing]
JsonError(s) == [kind |-> "json", status |-> s, error |-> TRUE, history_metadata |-> Missing]
\* An exception that leaves conversation(): the framework answers with its
\* own page of status s, not with a JSON error body built by the handler.
Escaped(s) == [kind |-> "escaped", status |-> s, error |-> FALSE, history_metadata |-> Missing]

\* The exception raised while handling the request, and the step that raised it.
NoRaise == [where |-> "none", ex |-> PlainError]
Raised(w, e) == [where |-> w, ex |-> e]

NoArgs == [built |-> FALSE, messages |-> <<>>]

\* ------------------------------------------------------------------- state
VARIABLES
    chat_history,                \* app_settings.chat_history is truthy
    system_message,              \* app_settings.azure_openai.system_message
    app_state,                   \* position of the before_serving hook
    cosmos_db_ready,             \* the asyncio.Event
    cosmos_conversation_client,  \* app.cosmos_conversation_client
    pc,                          \* position of the request handler
    context,                     \* path segment of the request
    is_json,                     \* request.is_json
    body,                        \* the payload as the client sent it
    parsed,                      \* request.get_json() has been called
    request_json,                \* the handler's (mutable) request body
    system_prompt,               \* local of conversation()
    model_args,                  \* result of prepare_model_args
    openai_client,               \* local of send_chat_request
    calls,                       \* completion calls issued for this request
    sent_messages,               \* the messages argument of the last call
    history_metadata,            \* value handed to the Response Formatter
    raised,                      \* exception raised by a step of the handler
    http_response                \* what the client receives

vars == <<chat_history, system_message, app_state, cosmos_db_ready,
          cosmos_conversation_client, pc, context, is_json, body, parsed,
          request_json, system_prompt, model_args, openai_client, calls,
          sent_messages, history_metadata, raised, http_response>>

config_vars == <<chat_history, system_message>>
startup_vars == <<app_state, cosmos_db_ready, cosmos_conversation_client>>
request_vars == <<context, is_json, body>>

\* --------------------------------------------------------- pure operations
SYSTEM_PROMPTS ==
    [c \in {"it", "legal"} |->
        IF c = "it"
        THEN "You are an expert IT assistant. Provide detailed technical guidance and solutions for IT-related queries."
        ELSE "You are a professional legal assistant. Provide accurate, concise, and compliant legal advice."]

\* Variant: the configured default, when set, wins over the table.
ResolvePrompt_DefaultFirst(ctx, default) ==
    IF default \notin {NoneValue, ""} THEN default
    ELSE IF ctx \in DOMAIN SYSTEM_PROMPTS THEN SYSTEM_PROMPTS[ctx] ELSE default

\* SYSTEM_PROMPTS.get(context, app_settings.azure_openai.system_message)
ResolvePrompt(ctx, default) ==
    IF ctx \in DOMAIN SYSTEM_PROMPTS THEN SYSTEM_PROMPTS[ctx] ELSE default

\* `not system_prompt`
Falsy(s) == s \in {NoneValue, ""}

\* request_json.get("messages", [])
GetMessages(rj) ==
    IF rj.messages.kind = "missing" THEN ListMessages(<<>>) ELSE rj.messages

\* Variant: messages.append(...) instead of messages.insert(0, ...).
InsertSystemPrompt_Append(items, prompt) == items \o <<Msg("system", prompt)>>

\* messages.insert(0, {"role": "system", "content": system_prompt})
InsertSystemPrompt(items, prompt) == <<Msg("system", prompt)>> \o items

\* Variant: the comprehension without its condition.
FilterToolMessages_KeepAll(items) == items

\* [m for m in messages if m.get("role") != "tool"]
FilterToolMessages(items) == SelectSeq(items, LAMBDA m : m.role # "tool")

\* Variant: a fresh body {"messages": messages} replaces the request body.
SetMessages_Rebuild(rj, items) == Body("object", ListMessages(items), Missing, Missing)

\* request_json["messages"] = messages
SetMessages(rj, items) == [rj EXCEPT !.messages = ListMessages(items)]

\* request_body.get("history_metadata", {})
GetHistoryMetadata(rj) ==
    IF rj.history_metadata = Missing THEN EmptyMapping ELSE rj.history_metadata

\* Variant: the except-branch without the hasattr test.
HandleException_Always500(ex) == JsonError(500)

\* except-branch of conversation_internal
HandleException(ex) ==
    IF ex.has_status_code THEN JsonError(ex.status_code) ELSE JsonError(500)

\* backend.utils.format_non_streaming_response: the reply echoes the metadata
format_non_streaming_response(hm) ==
    [kind |-> "json", status |-> 200, error |-> FALSE, history_metadata |-> hm]

\* -------------------------------------------------------------------- Init
Init ==
    /\ chat_history \in BOOLEAN
    /\ system_message \in SystemMessageSettings
    /\ app_state = "Uninitialized"
    /\ cosmos_db_ready = FALSE
    /\ cosmos_conversation_client = "unassigned"
    /\ pc = "idle"
    /\ context = "it"
    /\ is_json = FALSE
    /\ body = RawBody
    /\ parsed = FALSE
    /\ request_json = Unread
    /\ system_prompt = NoneValue
    /\ model_args = NoArgs
    /\ openai_client = NoneValue
    /\ calls = 0
    /\ sent_messages = <<>>
    /\ history_metadata = Missing
    /\ raised = NoRaise
    /\ http_response = NoResponse

handler_locals ==
    <<parsed, request_json, system_prompt, model_args, openai_client, calls,
      sent_messages, history_metadata, raised, http_response>>

\* ----------------------------------------------------------------- startup
\* Variant: the signal is set on entry to the hook, before the assignment.
StartInit_SetsReady ==
    /\ app_state = "Uninitialized"
    /\ app_state' = "Initializing"
    /\ cosmos_db_ready' = TRUE
    /\ UNCHANGED <<config_vars, cosmos_conversation_client,
                   pc, request_vars, handler_locals>>

\* The server invokes the before_serving hook once.
StartInit ==
    /\ app_state = "Uninitialized"
    /\ app_state' = "Initializing"
    /\ UNCHANGED <<config_vars, cosmos_db_ready, cosmos_conversation_client,
                   pc, request_vars, handler_locals>>

\* init_cosmosdb_client() and the assignment of its result in init().
InitCosmosClient ==
    /\ app_state = "Initializing"
    /\ \E constructed \in BOOLEAN :
        IF ~chat_history
        THEN /\ cosmos_conversation_client' = NoneValue
             /\ app_state' = "ClientAssigned"
        ELSE IF constructed
        THEN /\ cosmos_conversation_client' = "client"
             /\ app_state' = "ClientAssigned"
        ELSE /\ cosmos_conversation_client' = cosmos_conversation_client
             /\ app_state' = "InitRaised"
    /\ UNCHANGED <<config_vars, cosmos_db_ready, pc, request_vars, handler_locals>>

\* cosmos_db_ready.set(); the hook returns and the server starts serving.
InitSetReady ==
    /\ app_state = "ClientAssigned"
    /\ cosmos_db_ready' = TRUE
    /\ app_state' = "Ready"
    /\ UNCHANGED <<config_vars, cosmos_conversation_client, pc, request_vars, handler_locals>>

\* Variant: the except-branch without `raise e`; the hook returns normally.
InitExcept_Swallow ==
    /\ app_state = "InitRaised"
    /\ cosmos_conversation_client' = NoneValue
    /\ app_state' = "Ready"
    /\ UNCHANGED <<config_vars, cosmos_db_ready, pc, request_vars, handler_locals>>

\* except-branch of init(): store None and re-raise; startup is aborted.
InitExcept ==
    /\ app_state = "InitRaised"
    /\ cosmos_conversation_client' = NoneValue
    /\ app_state' = "Failed"
    /\ UNCHANGED <<config_vars, cosmos_db_ready, pc, request_vars, handler_locals>>

\* ----------------------------------------------------------------- request
\* A POST /conversation/<context> arrives; only a started server routes it.
ReceiveRequest ==
    /\ app_state = "Ready"
    /\ pc = "idle"
    /\ \E c \in Contexts, j \in BOOLEAN :
        /\ context' = c
        /\ is_json' = j
        /\ body' \in (IF j THEN JsonBodies ELSE {RawBody})
    /\ pc' = "check_json"
    /\ UNCHANGED <<config_vars, startup_vars, handler_locals>>

Respond(r) ==
    /\ http_response' = r
    /\ pc' = "done"
    /\ UNCHANGED raised

\* An exception leaves conversation() uncaught.
Escape(w, s) ==
    /\ raised' = Raised(w, PlainError)
    /\ http_response' = Escaped(s)
    /\ pc' = "done"

\* An exception reaches the except-branch of conversation_internal.
Catch(w, ex) ==
    /\ raised' = Raised(w, ex)
    /\ http_response' = HandleException(ex)
    /\ pc' = "done"

Continue(next) ==
    /\ pc' = next
    /\ UNCHANGED <<http_response, raised>>

\* Variant: the prompt check placed before the JSON check.
CheckJson_PromptFirst ==
    /\ pc = "check_json"
    /\ IF Falsy(ResolvePrompt(context, system_message))
       THEN Respond(JsonError(400))
       ELSE IF ~is_json
       THEN Respond(JsonError(415))
       ELSE /\ Continue("get_json")
    /\ UNCHANGED <<config_vars, startup_vars, request_vars, parsed, request_json,
                   system_prompt, model_args, openai_client, calls,
                   sent_messages, history_metadata>>

\* if not request.is_json: return 415
CheckJson ==
    /\ pc = "check_json"
    /\ IF ~is_json
       THEN Respond(JsonError(415))
       ELSE /\ Continue("get_json")
    /\ UNCHANGED <<config_vars, startup_vars, request_vars, parsed, request_json,
                   system_prompt, model_args, openai_client, calls,
                   sent_messages, history_metadata>>

\* request_json = await request.get_json()
GetJson ==
    /\ pc = "get_json"
    /\ parsed' = TRUE
    /\ IF body.kind = "malformed"
       THEN /\ Escape("get_json", 400)
            /\ UNCHANGED request_json
       ELSE /\ request_json' = body
            /\ Continue("select_prompt")
    /\ UNCHANGED <<config_vars, startup_vars, request_vars, system_prompt,
                   model_args, openai_client, calls, sent_messages,
                   history_metadata>>

\* system_prompt = SYSTEM_PROMPTS.get(...); if not system_prompt: return 400
SelectPrompt ==
    /\ pc = "select_prompt"
    /\ system_prompt' = ResolvePrompt(context, system_message)
    /\ IF Falsy(system_prompt')
       THEN Respond(JsonError(400))
       ELSE /\ Continue("insert_prompt")
    /\ UNCHANGED <<config_vars, startup_vars, request_vars, parsed, request_json,
                   model_args, openai_client, calls, sent_messages,
                   history_metadata>>

\* messages = request_json.get("messages", []); messages.insert(0, ...);
\* request_json["messages"] = messages.  Not inside any try block.
InsertPrompt ==
    /\ pc = "insert_prompt"
    /\ IF request_json.kind # "object" \/ GetMessages(request_json).kind # "list"
       THEN /\ Escape("insert_prompt", 500)
            /\ UNCHANGED request_json
       ELSE /\ request_json' =
                SetMessages(request_json,
                    InsertSystemPrompt(GetMessages(request_json).items, system_prompt))
            /\ Continue("filter")
    /\ UNCHANGED <<config_vars, startup_vars, request_vars, parsed, system_prompt,
                   model_args, openai_client, calls, sent_messages,
                   history_metadata>>

\* send_chat_request: the filter, request_body["messages"] = ..., and
\* prepare_model_args; a message without .get raises inside the try of
\* conversation_internal.
FilterMessages ==
    /\ pc = "filter"
    /\ LET items == GetMessages(request_json).items IN
       IF \E i \in 1..Len(items) : items[i].kind # "dict"
       THEN /\ Catch("filter", PlainError)
            /\ UNCHANGED <<request_json, model_args>>
       ELSE /\ request_json' = SetMessages(request_json, FilterToolMessages(items))
            /\ model_args' = [built |-> TRUE, messages |-> GetMessages(request_json').items]
            /\ Continue("init_client")
    /\ UNCHANGED <<config_vars, startup_vars, request_vars, parsed, system_prompt,
                   openai_client, calls, sent_messages, history_metadata>>

\* azure_openai_client = await init_openai_client()
InitOpenAIClient ==
    /\ pc = "init_client"
    /\ \E o \in Outcomes :
        IF o.ok
        THEN /\ openai_client' = "client"
             /\ Continue("create")
        ELSE /\ Catch("init_client", o.ex)
             /\ UNCHANGED openai_client
    /\ UNCHANGED <<config_vars, startup_vars, request_vars, parsed, request_json,
                   system_prompt, model_args, calls, sent_messages,
                   history_metadata>>

\* Variant: a failed completion call is issued a second time.
CreateCompletion_Retry ==
    /\ pc = "create"
    /\ sent_messages' = model_args.messages
    /\ \E o \in Outcomes :
        IF o.ok
        THEN /\ calls' = calls + 1
             /\ Continue("parse_response")
        ELSE /\ calls' = calls + 2
             /\ Catch("create", o.ex)
    /\ UNCHANGED <<config_vars, startup_vars, request_vars, parsed, request_json,
                   system_prompt, model_args, openai_client, history_metadata>>

\* raw_response = await ...with_raw_response.create(**model_args)
CreateCompletion ==
    /\ pc = "create"
    /\ calls' = calls + 1
    /\ sent_messages' = model_args.messages
    /\ \E o \in Outcomes :
        IF o.ok
        THEN Continue("parse_response")
        ELSE Catch("create", o.ex)
    /\ UNCHANGED <<config_vars, startup_vars, request_vars, parsed, request_json,
                   system_prompt, model_args, openai_client, history_metadata>>

\* response = raw_response.parse(); apim_request_id = raw_response.headers.get(...)
ParseResponse ==
    /\ pc = "parse_response"
    /\ \E o \in Outcomes :
        IF o.ok
        THEN Continue("format")
        ELSE Catch("parse_response", o.ex)
    /\ UNCHANGED <<config_vars, startup_vars, request_vars, parsed, request_json,
                   system_prompt, model_args, openai_client, calls,
                   sent_messages, history_metadata>>

\* history_metadata = request_body.get("history_metadata", {});
\* return jsonify(format_non_streaming_response(...))
FormatResponse ==
    /\ pc = "format"
    /\ history_metadata' = GetHistoryMetadata(request_json)
    /\ \E o \in Outcomes :
        IF o.ok
        THEN Respond(format_non_streaming_response(history_metadata'))
        ELSE Catch("format", o.ex)
    /\ UNCHANGED <<config_vars, startup_vars, request_vars, parsed, request_json,
                   system_prompt, model_args, openai_client, calls,
                   sent_messages>>

\* The reply has been delivered; the request-scoped values are dropped.
Deliver ==
    /\ pc = "done"
    /\ pc' = "idle"
    /\ parsed' = FALSE
    /\ request_json' = Unread
    /\ system_prompt' = NoneValue
    /\ model_args' = NoArgs
    /\ openai_client' = NoneValue
    /\ calls' = 0
    /\ sent_messages' = <<>>
    /\ history_metadata' = Missing
    /\ raised' = NoRaise
    /\ http_response' = NoResponse
    /\ context' = "it"
    /\ is_json' = FALSE
    /\ body' = RawBody
    /\ UNCHANGED <<config_vars, startup_vars>>

Next ==
    \/ StartInit
    \/ InitCosmosClient
    \/ InitSetReady
    \/ InitExcept
    \/ ReceiveRequest
    \/ CheckJson
    \/ GetJson
    \/ SelectPrompt
    \/ InsertPrompt
    \/ FilterMessages
    \/ InitOpenAIClient
    \/ CreateCompletion
    \/ ParseResponse
    \/ FormatResponse
    \/ Deliver

Spec == Init /\ [][Next]_vars

\* ------------------------------------------------------------------ claims
IT_PROMPT == "You are an expert IT assistant. Provide detailed technical guidance and solutions for IT-related queries."
LEGAL_PROMPT == "You are a professional legal assistant. Provide accurate, concise, and compliant legal advice."

\* The prompt the context key stands for.
ExpectedPrompt ==
    IF context = "it" THEN IT_PROMPT
    ELSE IF context = "legal" THEN LEGAL_PROMPT
    ELSE system_message

\* The message list as the client sent it (empty when absent).
ClientItems ==
    IF body.kind = "object" /\ body.messages.kind = "list" THEN body.messages.items ELSE <<>>
ToolIdx == {i \in 1..Len(ClientItems) : ClientItems[i].role = "tool"}
NonToolIdx == (1..Len(ClientItems)) \ ToolIdx
UpstreamCalled == calls >= 1
\* The handler has evaluated the prompt lookup of this request.
PromptSelected ==
    pc \in {"insert_prompt", "filter", "init_client", "create", "parse_response", "format"}
    \/ (pc = "done" /\ is_json /\ raised.where # "get_json")

\* C1: whenever the completion call has been issued, the first message sent
\* is the system message carrying the prompt resolved for the context key.
C1_SystemPromptFirst ==
    UpstreamCalled =>
        /\ Len(sent_messages) >= 1
        /\ sent_messages[1].role = "system"
        /\ sent_messages[1].content = ExpectedPrompt
        /\ sent_messages[1].content = system_prompt

C1_Witness ==
    /\ UpstreamCalled
    /\ context = "hr"
    /\ body.kind = "object"
    /\ body.messages.kind = "missing"

\* C2: the list sent has L - N + 1 elements, none with role "tool", and after
\* the system prompt come exactly the client's non-tool messages, in order.
C2_ToolMessagesFiltered ==
    UpstreamCalled =>
        /\ Len(sent_messages) = Len(ClientItems) - Cardinality(ToolIdx) + 1
        /\ \A i \in 1..Len(sent_messages) : sent_messages[i].role # "tool"
        /\ \E f \in [1..(Len(sent_messages) - 1) -> 1..Len(ClientItems)] :
            /\ \A i, j \in DOMAIN f : i < j => f[i] < f[j]
            /\ {f[i] : i \in DOMAIN f} = NonToolIdx
            /\ \A i \in DOMAIN f : sent_messages[i + 1] = ClientItems[f[i]]

C2_Witness ==
    /\ UpstreamCalled
    /\ Len(ClientItems) = 2
    /\ ClientItems[1].role = "tool"
    /\ ClientItems[2] = Msg("user", "b")
    /\ sent_messages = <<Msg("system", system_prompt), Msg("user", "b")>>

\* C3: once the prompt lookup has run, "it" and "legal" give their fixed
\* prompts whatever the default, another key gives the configured default,
\* and another key without a usable default ends in 400 with an error body
\* and no completion call.
C3_PromptSelection ==
    PromptSelected =>
        /\ context = "it" => system_prompt = IT_PROMPT
        /\ context = "legal" => system_prompt = LEGAL_PROMPT
        /\ (context \notin {"it", "legal"} /\ system_message \notin {NoneValue, ""})
              => system_prompt = system_message
        /\ (context \notin {"it", "legal"} /\ system_message \in {NoneValue, ""})
              => /\ pc = "done"
                 /\ http_response = JsonError(400)
                 /\ raised = NoRaise
                 /\ calls = 0
        /\ (context \in {"it", "legal"} \/ system_message \notin {NoneValue, ""})
              => ~(http_response.status = 400 /\ raised = NoRaise)

C3_Witness ==
    /\ pc = "done"
    /\ context = "hr"
    /\ system_message = ""
    /\ http_response.status = 400

\* C4: a failure of client construction, the completion call, response
\* parsing or formatting is answered with the error's status code when it
\* has one and with 500 otherwise, always with an error body.
C4_UpstreamStatusSurfaced ==
    raised.where \in {"init_client", "create", "parse_response", "format"} =>
        /\ pc = "done"
        /\ http_response.kind = "json"
        /\ http_response.error
        /\ raised.ex.has_status_code => http_response.status = raised.ex.status_code
        /\ ~raised.ex.has_status_code => http_response.status = 500

C4_Witness ==
    /\ raised = Raised("create", StatusError(429))
    /\ http_response.status = 429

\* C5: every error raised while handling a request ends in a JSON error
\* body built by the handler.
C5_AllErrorsCaught ==
    (pc = "done" /\ raised.where # "none") =>
        (http_response.kind = "json" /\ http_response.error)

InitFailed == app_state \in {"InitRaised", "Failed"}

\* C6: after a failed History Store construction the signal is never set,
\* the stored reference becomes None, and the server never serves.
C6_InitFailureIsFatal ==
    /\ [](InitFailed => (~cosmos_db_ready /\ pc = "idle"))
    /\ [](app_state = "Failed" => cosmos_conversation_client = NoneValue)
    /\ [][InitFailed => (InitFailed' /\ ~cosmos_db_ready' /\ pc' = "idle")]_vars

C6_Witness ==
    /\ app_state = "Failed"
    /\ chat_history
    /\ cosmos_conversation_client = NoneValue

\* C7 as stated: a request past the JSON check and the prompt check has
\* issued exactly one completion call when its handling ends.
C7_ExactlyOneCall ==
    (pc = "done" /\ is_json /\ ~Falsy(system_prompt)) => calls = 1

\* C7 amended: at most one completion call per request and never a second
\* one after a failure; exactly one once client construction has succeeded
\* and the call step has run; none for a request rejected by either check.
C7_AtMostOneCall ==
    /\ [](calls <= 1)
    /\ []((pc = "done" /\ raised = NoRaise /\ http_response.status \in {415, 400}) => calls = 0)
    /\ []((pc = "done" /\ openai_client = "client") => calls = 1)
    /\ []((pc = "done" /\ openai_client # "client") => calls = 0)
    /\ [][calls' > calls => (pc = "create" /\ calls' = calls + 1)]_vars

C7_Witness ==
    /\ pc = "done"
    /\ calls = 1
    /\ raised = Raised("create", StatusError(429))

\* C8: a request that is not JSON ends in 415 with an error body for every
\* context key, its body is never parsed and no completion call is issued.
C8_NonJsonIs415 ==
    (~is_json /\ pc \notin {"idle", "check_json"}) =>
        /\ pc = "done"
        /\ http_response = JsonError(415)
        /\ ~parsed
        /\ calls = 0

C8_Witness ==
    /\ pc = "done"
    /\ ~is_json
    /\ context = "hr"
    /\ system_message = NoneValue
    /\ http_response.status = 415

\* C9: the formatter receives the client's history_metadata (the empty
\* mapping when there is none), and the handler's request body differs from
\* the client's only in its messages field.
C9_HistoryMetadataUntouched ==
    /\ request_json.kind = "object" =>
          /\ request_json.history_metadata = body.history_metadata
          /\ request_json.other = body.other
    /\ history_metadata # Missing =>
          history_metadata =
              (IF body.history_metadata = Missing THEN EmptyMapping ELSE body.history_metadata)

C9_Witness ==
    /\ pc = "done"
    /\ http_response.status = 200
    /\ body.history_metadata = "{foo:1}"
    /\ history_metadata = "{foo:1}"
    /\ ToolIdx # {}

\* C10: a set signal implies the reference has been assigned, holding a
\* client exactly when chat history is enabled; with chat history disabled
\* initialization cannot fail and leaves None behind the set signal.
C10_ReadyImpliesAssigned ==
    /\ cosmos_db_ready =>
          /\ cosmos_conversation_client # "unassigned"
          /\ (cosmos_conversation_client = "client") <=> chat_history
          /\ ~chat_history => cosmos_conversation_client = NoneValue
    /\ ~chat_history => app_state \notin {"InitRaised", "Failed"}

C10_Witness ==
    /\ cosmos_db_ready
    /\ ~chat_history
    /\ cosmos_conversation_client = NoneValue
    /\ app_state = "Ready"

====
